---- MODULE Spec2Model ----
(***************************************************************************)
(* Model of python/pip_install/extract_wheels/lib/bazel.py: the label      *)
(* sanitiser, the four label builders, the BUILD.bazel generator and the   *)
(* wheel extractor extract_wheel, run by two callers that share one        *)
(* working directory.                                                      *)
(*                                                                         *)
(* Strings the code computes with (distribution names, prefixes, labels,   *)
(* directory names) are sequences of one-character strings, so that        *)
(* replace(), lower(), "%" formatting, ",".join() and sorted() are         *)
(* computed character by character.  File paths that the code only passes  *)
(* on (the archive path, data-exclusion patterns) are atomic strings.      *)
(***************************************************************************)
EXTENDS Integers, Sequences, FiniteSets, TLC

VARIABLES
    extras,                          \* argument extras: Dict[str, Set[str]]
    pip_data_exclude,                \* argument pip_data_exclude
    enable_implicit_namespace_pkgs,  \* argument enable_implicit_namespace_pkgs
    repo_prefix,                     \* argument repo_prefix
    fs,                              \* directory name -> its contents ("." holds the archives)
    pc,                              \* per call: the statement of extract_wheel to run next
    call,                            \* per call: wheel_file and incremental
    loc,                             \* per call: the local variables of extract_wheel
    log,                             \* per call: the statements completed so far, in order
    sanA, sanB, sanPrefix,           \* inputs of the sanitiser under SpecSan
    sanOutA, sanOutB                 \* its results (<<>> before the call)

vars == <<extras, pip_data_exclude, enable_implicit_namespace_pkgs, repo_prefix,
          fs, pc, call, loc, log, sanA, sanB, sanPrefix, sanOutA, sanOutB>>

extractVars == <<extras, pip_data_exclude, enable_implicit_namespace_pkgs, repo_prefix,
                 fs, pc, call, loc, log>>

sanVars == <<sanA, sanB, sanPrefix, sanOutA, sanOutB>>

-----------------------------------------------------------------------------
(* Python str primitives on character sequences.                           *)

\* The characters in use, in code-point order (str comparison in sorted()).
CharOrder ==
    << "\"", "-", ".", "/", ":", "@", "A", "B", "P", "S", "_",
       "a", "b", "h", "k", "l", "n", "p", "s", "w" >>

Ord(c) == CHOOSE i \in 1..Len(CharOrder) : CharOrder[i] = c

\* str.lower() on one character.
LowerChar(c) ==
    CASE c = "A" -> "a"
      [] c = "B" -> "b"
      [] c = "P" -> "p"
      [] c = "S" -> "s"
      [] OTHER   -> c

\* str.lower()
Lower(s) == [i \in 1..Len(s) |-> LowerChar(s[i])]

\* str.replace(old, new) for one-character old and new
Replace(s, old, new) == [i \in 1..Len(s) |-> IF s[i] = old THEN new ELSE s[i]]

\* a < b on str: lexicographic by code point
RECURSIVE StrLess(_, _)
StrLess(a, b) ==
    IF a = <<>> THEN b # <<>>
    ELSE IF b = <<>> THEN FALSE
    ELSE IF Head(a) = Head(b) THEN StrLess(Tail(a), Tail(b))
    ELSE Ord(Head(a)) < Ord(Head(b))

MinStr(S) == CHOOSE a \in S : \A b \in S \ {a} : StrLess(a, b)

\* Descending order: what a reversed comparison would produce.
RECURSIVE sortedDescending(_)
sortedDescending(S) ==
    IF S = {} THEN <<>>
    ELSE LET m == MinStr(S) IN Append(sortedDescending(S \ {m}), m)

\* sorted(S) for a set of str
RECURSIVE sorted(_)
sorted(S) ==
    IF S = {} THEN <<>>
    ELSE LET m == MinStr(S) IN <<m>> \o sorted(S \ {m})

\* ",".join(items)
RECURSIVE Join(_)
Join(items) ==
    IF items = <<>> THEN <<>>
    ELSE IF Len(items) = 1 THEN items[1]
    ELSE items[1] \o <<",">> \o Join(Tail(items))

-----------------------------------------------------------------------------
(* bazel.py: constants, sanitise_name and the label builders.              *)

WHEEL_FILE_LABEL == <<"w", "h", "l">>
PY_LIBRARY_LABEL == <<"p", "k", "g">>

\* sanitise_name that forgets the dots.
sanitise_name_keeps_dots(name, prefix) == prefix \o Lower(Replace(name, "-", "_"))

sanitise_name(name, prefix) ==
    prefix \o Lower(Replace(Replace(name, "-", "_"), ".", "_"))

\* A library label built from the name as spelled, without sanitising it.
library_label_unsanitised(whl_name, prefix) ==
    <<"\"", "/", "/">> \o prefix \o whl_name \o <<"\"">>

sanitised_library_label(whl_name, prefix) ==
    <<"\"", "/", "/">> \o sanitise_name(whl_name, prefix) \o <<"\"">>

sanitised_file_label(whl_name, prefix) ==
    <<"\"", "/", "/">> \o sanitise_name(whl_name, prefix) \o <<":">>
        \o WHEEL_FILE_LABEL \o <<"\"">>

whl_name_to_repo_root(whl_name, repo_pfx) ==
    <<"@">> \o sanitise_name(whl_name, repo_pfx) \o <<"/", "/">>

sanitised_repo_library_label(whl_name, repo_pfx) ==
    <<"\"">> \o whl_name_to_repo_root(whl_name, repo_pfx) \o <<":">>
        \o PY_LIBRARY_LABEL \o <<"\"">>

sanitised_repo_file_label(whl_name, repo_pfx) ==
    <<"\"">> \o whl_name_to_repo_root(whl_name, repo_pfx) \o <<":">>
        \o WHEEL_FILE_LABEL \o <<"\"">>

\* The fields generate_build_file_contents formats into its fixed template.
generate_build_file_contents(name, dependencies, whl_file_deps, data_exclude_arg) ==
    [ whl_file_label |-> WHEEL_FILE_LABEL,
      whl_file_deps  |-> Join(whl_file_deps),
      name           |-> name,
      data_exclude   |-> <<"*.whl", "**/*.py", "**/* *", "BUILD.bazel", "WORKSPACE">>
                            \o data_exclude_arg,
      dependencies   |-> Join(dependencies) ]

-----------------------------------------------------------------------------
(* The collaborators extract_wheel calls: wheel.Wheel, purelib and         *)
(* namespace_pkgs.  Their modules are not part of the source at hand; they *)
(* are modelled from the specification's interface description.            *)

WheelV == "A_b-1.0-py3-none-any.whl"
WheelW == "s-1.0-py3-none-any.whl"
WheelU == "S-2.0-py3-none-any.whl"

WheelFiles == {WheelV, WheelW, WheelU}

\* What each archive carries: its distribution name, its requirements (plain
\* and per extra) and its files.
Metadata(w) ==
    CASE w = WheelV ->
           [ name     |-> <<"A", "-", "b">>,
             requires |-> {<<"n">>, <<"S">>},
             extra_requires |-> [e \in {"x"} |-> {<<"s">>}],
             files    |-> { <<"A_b-1.0.data", "purelib", "ns", "sub", "m.py">>,
                            <<"bin", "tool", "t.py">>,
                            <<"docs", "x.txt">> } ]
      [] w = WheelW ->
           [ name     |-> <<"s">>,
             requires |-> {},
             extra_requires |-> [e \in {} |-> {}],
             files    |-> { <<"s.py">> } ]
      [] OTHER ->
           [ name     |-> <<"S">>,
             requires |-> {<<"a", ".", "B">>},
             extra_requires |-> [e \in {} |-> {}],
             files    |-> { <<"s.py">> } ]

\* whl.name
WheelName(w) == Metadata(w).name

\* whl.dependencies(extras_requested)
Dependencies(w, extras_requested) ==
    Metadata(w).requires
        \cup UNION { Metadata(w).extra_requires[e] :
                        e \in extras_requested \cap DOMAIN Metadata(w).extra_requires }

PyFiles == {"m.py", "t.py", "s.py", "__init__.py"}

IsPurelib(f) == Len(f) > 2 /\ f[2] = "purelib"

\* purelib.spread_purelib_into_root(directory)
spread_purelib_into_root(tree) ==
    { IF IsPurelib(f) THEN SubSeq(f, 3, Len(f)) ELSE f : f \in tree }

Dirs(tree) == UNION { { SubSeq(f, 1, k) : k \in 1..(Len(f) - 1) } : f \in tree }

Under(d, f) == Len(f) > Len(d) /\ SubSeq(f, 1, Len(d)) = d

\* namespace_pkgs.implicit_namespace_packages(directory, ignored_dirnames)
implicit_namespace_packages(tree, ignored_dirnames) ==
    { d \in Dirs(tree) :
        /\ Append(d, "__init__.py") \notin tree
        /\ \E f \in tree : Under(d, f) /\ Len(f) > Len(d) + 1 /\ f[Len(f)] \in PyFiles
        /\ \A g \in ignored_dirnames : d # g /\ ~Under(g, d) }

\* namespace_pkgs.add_pkgutil_style_namespace_pkg_init(ns_pkg_dir)
add_pkgutil_style_namespace_pkg_init(d) == Append(d, "__init__.py")

-----------------------------------------------------------------------------
(* bazel.py: setup_namespace_pkg_compatibility and the pieces of           *)
(* extract_wheel.                                                          *)

setup_namespace_pkg_compatibility(tree) ==
    tree \cup { add_pkgutil_style_namespace_pkg_init(d) :
                   d \in implicit_namespace_packages(tree, {<<"bin">>}) }

Procs == {"c1", "c2"}

Root == <<".">>

EmptyDir == [whl |-> {}, tree |-> {}, build |-> <<>>]

\* The .whl files lying in the working directory.
Archives(f) == f[Root].whl

NoCall == [wheel_file |-> "", incremental |-> FALSE]

NoLocals ==
    [ directory |-> <<>>, extras_requested |-> {}, whl_deps |-> <<>>,
      sanitised_dependencies |-> <<>>, sanitised_wheel_file_dependencies |-> <<>>,
      contents |-> <<>>, ret |-> <<>> ]

\* The statements in the wrong order: the archive is removed right after unzip.
NextPcRemoveEarly(step, incremental) ==
    CASE step = "open"      -> IF incremental THEN "unzip" ELSE "mkdir"
      [] step = "mkdir"     -> "copy"
      [] step = "copy"      -> "unzip"
      [] step = "unzip"     -> IF incremental THEN "purelib" ELSE "remove"
      [] step = "remove"    -> "purelib"
      [] step = "purelib"   -> "namespace"
      [] step = "namespace" -> "deps"
      [] step = "deps"      -> "write"
      [] step = "write"     -> "return"
      [] OTHER              -> "done"

\* The statement that follows `step` in extract_wheel.
NextPc(step, incremental) ==
    CASE step = "open"      -> IF incremental THEN "unzip" ELSE "mkdir"
      [] step = "mkdir"     -> "copy"
      [] step = "copy"      -> "unzip"
      [] step = "unzip"     -> "purelib"
      [] step = "purelib"   -> "namespace"
      [] step = "namespace" -> "deps"
      [] step = "deps"      -> "write"
      [] step = "write"     -> IF incremental THEN "return" ELSE "remove"
      [] step = "remove"    -> "return"
      [] OTHER              -> "done"

\* os.mkdir that accepts an existing directory (exist_ok).
MkdirAcceptsExisting(directory, f) == FALSE

\* os.mkdir(directory) raises FileExistsError
MkdirFails(directory, f) == directory \in DOMAIN f

\* A copy that never lands in the directory.
CopyNothing(entry, path) == entry

\* shutil.copy(whl.path, directory)
DirAfterCopy(entry, path) == [entry EXCEPT !.whl = @ \cup {path}]

\* The condition with its negation dropped.
RunsNamespaceCompatWhenEnabled(flag) == flag

\* if not enable_implicit_namespace_pkgs:
RunsNamespaceCompat(flag) == ~flag

\* A lookup that matches the key after lower-casing both sides.
ExtrasRequestedIgnoringCase(ex, name) ==
    IF \E k \in DOMAIN ex : Lower(k) = Lower(name)
    THEN ex[CHOOSE k \in DOMAIN ex : Lower(k) = Lower(name)]
    ELSE {}

\* extras[whl.name] if whl.name in extras else set()
ExtrasRequested(ex, name) == IF name \in DOMAIN ex THEN ex[name] ELSE {}

\* The name-derived target name in both modes.
BuildTargetNameAlwaysSanitised(incremental, name, prefix) == sanitise_name(name, prefix)

\* PY_LIBRARY_LABEL if incremental else sanitise_name(whl.name, repo_prefix)
BuildTargetName(incremental, name, prefix) ==
    IF incremental THEN PY_LIBRARY_LABEL ELSE sanitise_name(name, prefix)

\* A removal that leaves the file where it is.
RemoveNothing(entry, path) == entry

\* os.remove(whl.path)
DirAfterRemove(entry, path) == [entry EXCEPT !.whl = @ \ {path}]

\* "//%s" % directory
ReturnValue(directory) == <<"/", "/">> \o directory

-----------------------------------------------------------------------------
(* The arguments a generation run passes to every call of extract_wheel.   *)

ExtrasChoices ==
    { [n \in {} |-> {}],
      [n \in {<<"A", "-", "b">>} |-> {"x"}],
      [n \in {<<"a", "-", "b">>} |-> {"x"}] }

DataExcludeChoices == { <<>>, <<"docs/**">> }

PrefixChoices == { <<"p", "_">>, <<"P">> }

\* The sanitiser's inputs are not in use while extract_wheel runs.
SanIdle ==
    /\ sanA = <<>> /\ sanB = <<>> /\ sanPrefix = <<>>
    /\ sanOutA = <<>> /\ sanOutB = <<>>

Init ==
    /\ extras \in ExtrasChoices
    /\ pip_data_exclude \in DataExcludeChoices
    /\ enable_implicit_namespace_pkgs \in BOOLEAN
    /\ repo_prefix \in PrefixChoices
    /\ fs = [d \in {Root} |-> [EmptyDir EXCEPT !.whl = WheelFiles]]
    /\ pc = [p \in Procs |-> "idle"]
    /\ call = [p \in Procs |-> NoCall]
    /\ loc = [p \in Procs |-> NoLocals]
    /\ log = [p \in Procs |-> <<>>]
    /\ SanIdle

Readable(p) == call[p].wheel_file \in Archives(fs)

Config == <<extras, pip_data_exclude, enable_implicit_namespace_pkgs, repo_prefix>>

Step(p, step) ==
    /\ pc' = [pc EXCEPT ![p] = NextPc(step, call[p].incremental)]
    /\ log' = [log EXCEPT ![p] = Append(@, step)]

\* whl = wheel.Wheel(wheel_file); if incremental: directory = "."
Open(p) ==
    /\ pc[p] = "idle"
    /\ \E w \in WheelFiles, inc \in BOOLEAN :
         /\ call' = [call EXCEPT ![p] = [wheel_file |-> w, incremental |-> inc]]
         /\ loc' = [loc EXCEPT ![p].directory = IF inc THEN Root ELSE <<>>]
         /\ pc' = [pc EXCEPT ![p] = NextPc("open", inc)]
         /\ log' = [log EXCEPT ![p] = Append(@, "open")]
    /\ UNCHANGED <<Config, fs, sanVars>>

\* directory = sanitise_name(whl.name, prefix=repo_prefix); os.mkdir(directory)
Mkdir(p) ==
    /\ pc[p] = "mkdir"
    /\ Readable(p)
    /\ LET directory == sanitise_name(WheelName(call[p].wheel_file), repo_prefix) IN
         /\ loc' = [loc EXCEPT ![p].directory = directory]
         /\ IF MkdirFails(directory, fs)
            THEN /\ pc' = [pc EXCEPT ![p] = "failed"]
                 /\ UNCHANGED <<fs, log>>
            ELSE /\ fs' = [d \in DOMAIN fs \cup {directory} |->
                              IF d \in DOMAIN fs THEN fs[d] ELSE EmptyDir]
                 /\ Step(p, "mkdir")
    /\ UNCHANGED <<Config, call, sanVars>>

\* shutil.copy(whl.path, directory)
Copy(p) ==
    /\ pc[p] = "copy"
    /\ Readable(p)
    /\ fs' = [fs EXCEPT ![loc[p].directory] = DirAfterCopy(@, call[p].wheel_file)]
    /\ Step(p, "copy")
    /\ UNCHANGED <<Config, call, loc, sanVars>>

\* whl.unzip(directory)
Unzip(p) ==
    /\ pc[p] = "unzip"
    /\ Readable(p)
    /\ fs' = [fs EXCEPT ![loc[p].directory].tree =
                 @ \cup Metadata(call[p].wheel_file).files]
    /\ Step(p, "unzip")
    /\ UNCHANGED <<Config, call, loc, sanVars>>

\* purelib.spread_purelib_into_root(directory)
Purelib(p) ==
    /\ pc[p] = "purelib"
    /\ fs' = [fs EXCEPT ![loc[p].directory].tree = spread_purelib_into_root(@)]
    /\ Step(p, "purelib")
    /\ UNCHANGED <<Config, call, loc, sanVars>>

\* if not enable_implicit_namespace_pkgs: setup_namespace_pkg_compatibility(directory)
Namespace(p) ==
    /\ pc[p] = "namespace"
    /\ IF RunsNamespaceCompat(enable_implicit_namespace_pkgs)
       THEN /\ fs' = [fs EXCEPT ![loc[p].directory].tree =
                         setup_namespace_pkg_compatibility(@)]
            /\ Step(p, "namespace")
       ELSE /\ pc' = [pc EXCEPT ![p] = NextPc("namespace", call[p].incremental)]
            /\ UNCHANGED <<fs, log>>
    /\ UNCHANGED <<Config, call, loc, sanVars>>

\* extras_requested, whl_deps and the two label lists
Deps(p) ==
    /\ pc[p] = "deps"
    /\ Readable(p)
    /\ LET w == call[p].wheel_file
           extras_requested == ExtrasRequested(extras, WheelName(w))
           whl_deps == sorted(Dependencies(w, extras_requested))
       IN loc' = [loc EXCEPT
            ![p].extras_requested = extras_requested,
            ![p].whl_deps = whl_deps,
            ![p].sanitised_dependencies =
                [i \in 1..Len(whl_deps) |->
                    IF call[p].incremental
                    THEN sanitised_repo_library_label(whl_deps[i], repo_prefix)
                    ELSE sanitised_library_label(whl_deps[i], repo_prefix)],
            ![p].sanitised_wheel_file_dependencies =
                [i \in 1..Len(whl_deps) |->
                    IF call[p].incremental
                    THEN sanitised_repo_file_label(whl_deps[i], repo_prefix)
                    ELSE sanitised_file_label(whl_deps[i], repo_prefix)]]
    /\ Step(p, "deps")
    /\ UNCHANGED <<Config, call, fs, sanVars>>

\* with open(os.path.join(directory, "BUILD.bazel"), "w") ...: build_file.write(contents)
Write(p) ==
    /\ pc[p] = "write"
    /\ call[p].incremental \/ Readable(p)
    /\ LET contents ==
             generate_build_file_contents(
                 BuildTargetName(call[p].incremental,
                                 WheelName(call[p].wheel_file), repo_prefix),
                 loc[p].sanitised_dependencies,
                 loc[p].sanitised_wheel_file_dependencies,
                 pip_data_exclude)
       IN /\ fs' = [fs EXCEPT ![loc[p].directory].build = <<contents>>]
          /\ loc' = [loc EXCEPT ![p].contents = <<contents>>]
    /\ Step(p, "write")
    /\ UNCHANGED <<Config, call, sanVars>>

\* if not incremental: os.remove(whl.path)
Remove(p) ==
    /\ pc[p] = "remove"
    /\ Readable(p)
    /\ fs' = [fs EXCEPT ![Root] = DirAfterRemove(@, call[p].wheel_file)]
    /\ Step(p, "remove")
    /\ UNCHANGED <<Config, call, loc, sanVars>>

\* return "//%s" % directory
Return(p) ==
    /\ pc[p] = "return"
    /\ loc' = [loc EXCEPT ![p].ret = ReturnValue(loc[p].directory)]
    /\ Step(p, "return")
    /\ UNCHANGED <<Config, call, fs, sanVars>>

\* The statements that read the archive through whl.name, whl.path,
\* whl.unzip or whl.dependencies.
ReadsArchive(step, incremental) ==
    \/ step \in {"mkdir", "copy", "unzip", "deps", "remove"}
    \/ step = "write" /\ ~incremental

\* The archive is gone (another call removed it): the statement raises.
ArchiveMissing(p) ==
    /\ ReadsArchive(pc[p], call[p].incremental)
    /\ ~Readable(p)
    /\ pc' = [pc EXCEPT ![p] = "failed"]
    /\ UNCHANGED <<Config, call, loc, fs, log, sanVars>>

\* A permission or I/O error of a file-system statement propagates.
IOError(p) ==
    /\ pc[p] \in {"mkdir", "copy", "unzip", "purelib", "namespace", "write", "remove"}
    /\ pc' = [pc EXCEPT ![p] = "failed"]
    /\ UNCHANGED <<Config, call, loc, fs, log, sanVars>>

Next ==
    \E p \in Procs :
        \/ Open(p)
        \/ Mkdir(p)
        \/ Copy(p)
        \/ Unzip(p)
        \/ Purelib(p)
        \/ Namespace(p)
        \/ Deps(p)
        \/ Write(p)
        \/ Remove(p)
        \/ Return(p)
        \/ ArchiveMissing(p)
        \/ IOError(p)

Spec == Init /\ [][Next]_vars

-----------------------------------------------------------------------------
(* The sanitiser on its own: sanitise_name applied to two spellings of one *)
(* distribution name.                                                      *)

MaxNameLen == 3

SanAlphabet == {"a", "A", "b", "-", ".", "_"}

SanNames == UNION { [1..n -> SanAlphabet] : n \in 1..MaxNameLen }

SanPrefixes == { <<>>, <<"P", "-">> }

Separators == {"-", ".", "_"}

CasePairs == { <<"A", "a">>, <<"B", "b">>, <<"P", "p">>, <<"S", "s">> }

\* Two characters that differ at most in case or in the choice of separator.
SameChar(c, d) ==
    \/ c = d
    \/ c \in Separators /\ d \in Separators
    \/ <<c, d>> \in CasePairs
    \/ <<d, c>> \in CasePairs

\* Two names that differ only in letter case or in the choice of separator.
SameDistribution(a, b) ==
    /\ Len(a) = Len(b)
    /\ \A i \in 1..Len(a) : SameChar(a[i], b[i])

\* The canonical character: '_' for a separator, the lower-case letter for a letter.
CanonChar(c) ==
    IF c \in Separators THEN "_"
    ELSE IF \E pr \in CasePairs : pr[1] = c
         THEN (CHOOSE pr \in CasePairs : pr[1] = c)[2]
         ELSE c

Canonical(name) == [i \in 1..Len(name) |-> CanonChar(name[i])]

ExtractIdle ==
    /\ extras = [n \in {} |-> {}]
    /\ pip_data_exclude = <<>>
    /\ enable_implicit_namespace_pkgs = FALSE
    /\ repo_prefix = <<>>
    /\ fs = [d \in {Root} |-> EmptyDir]
    /\ pc = [p \in Procs |-> "idle"]
    /\ call = [p \in Procs |-> NoCall]
    /\ loc = [p \in Procs |-> NoLocals]
    /\ log = [p \in Procs |-> <<>>]

InitSan ==
    /\ sanA \in SanNames
    /\ sanB = sanA
    /\ sanPrefix \in SanPrefixes
    /\ sanOutA = <<>>
    /\ sanOutB = <<>>
    /\ ExtractIdle

\* Another spelling of the same name: one character changes its case or separator.
Respell ==
    /\ \E i \in 1..Len(sanB), c \in SanAlphabet :
          /\ c # sanB[i]
          /\ SameChar(c, sanB[i])
          /\ sanB' = [sanB EXCEPT ![i] = c]
    /\ sanOutA' = <<>>
    /\ sanOutB' = <<>>
    /\ UNCHANGED <<sanA, sanPrefix, extractVars>>

\* sanitise_name(sanA, sanPrefix) and sanitise_name(sanB, sanPrefix)
SanitiseBoth ==
    /\ sanOutA = <<>>
    /\ sanOutA' = sanitise_name(sanA, sanPrefix)
    /\ sanOutB' = sanitise_name(sanB, sanPrefix)
    /\ UNCHANGED <<sanA, sanB, sanPrefix, extractVars>>

NextSan == Respell \/ SanitiseBoth

SpecSan == InitSan /\ [][NextSan]_vars

-----------------------------------------------------------------------------
(* How the build system reads what the generator wrote: a comma-separated  *)
(* list of quoted labels, and a label's repository, package and target.    *)

IndexOf(s, c) ==
    IF \E i \in 1..Len(s) : s[i] = c
    THEN CHOOSE i \in 1..Len(s) : s[i] = c /\ \A j \in 1..(i - 1) : s[j] # c
    ELSE 0

RECURSIVE SplitLabels(_)
SplitLabels(text) ==
    IF text = <<>> THEN <<>>
    ELSE LET i == IndexOf(text, ",") IN
         IF i = 0 THEN <<text>>
         ELSE <<SubSeq(text, 1, i - 1)>> \o SplitLabels(SubSeq(text, i + 1, Len(text)))

\* "@repo//pkg:target", "//pkg:target" or "//pkg" (short for //pkg:pkg), quoted.
ParseLabel(l) ==
    LET body  == SubSeq(l, 2, Len(l) - 1)
        slash == IndexOf(body, "/")
        repo  == IF body[1] = "@" THEN SubSeq(body, 2, slash - 1) ELSE <<>>
        rest  == SubSeq(body, slash + 2, Len(body))
        colon == IndexOf(rest, ":")
        pkg   == IF colon = 0 THEN rest ELSE SubSeq(rest, 1, colon - 1)
    IN [ quoted |-> l[1] = "\"" /\ l[Len(l)] = "\"" /\ body[slash + 1] = "/",
         repo   |-> repo,
         pkg    |-> pkg,
         target |-> IF colon = 0 THEN pkg ELSE SubSeq(rest, colon + 1, Len(rest)) ]

Written(p) == loc[p].contents # <<>>

Contents(p) == loc[p].contents[1]

DepLabels(p) == SplitLabels(Contents(p).dependencies)

DataLabels(p) == SplitLabels(Contents(p).whl_file_deps)

Wheel(p) == call[p].wheel_file

Standalone(p) == pc[p] # "idle" /\ ~call[p].incremental

Incremental(p) == pc[p] # "idle" /\ call[p].incremental

Pos(l, s) == IndexOf(l, s)

\* In l, b happens only after a.
Before(l, a, b) == Pos(l, b) > 0 => (Pos(l, a) > 0 /\ Pos(l, a) < Pos(l, b))

StrictlyAscending(seq) ==
    \A i \in 1..(Len(seq) - 1) : StrLess(seq[i], seq[i + 1])

-----------------------------------------------------------------------------
(* Properties.                                                             *)

\* C1: a standalone extraction that completed returned "//" followed by
\* sanitise_name(name, prefix); that directory holds a BUILD.bazel; and the
\* archive the wheel was opened from is no longer in the working directory.
C1_StandaloneResult ==
    \A p \in Procs :
        (pc[p] = "done" /\ Standalone(p)) =>
            LET d == sanitise_name(WheelName(Wheel(p)), repo_prefix) IN
            /\ loc[p].ret = <<"/", "/">> \o d
            /\ d \in DOMAIN fs
            /\ fs[d].build # <<>>
            /\ Wheel(p) \notin Archives(fs)

C1_Witness ==
    \E p \in Procs :
        /\ pc[p] = "done" /\ Standalone(p)
        /\ WheelName(Wheel(p)) = <<"A", "-", "b">>
        /\ loc[p].ret = <<"/", "/", "p", "_", "a", "_", "b">>

C2_IncrementalState ==
    \A p \in Procs :
        (pc[p] = "done" /\ Incremental(p)) =>
            /\ loc[p].ret = <<"/", "/", ".">>
            /\ Contents(p).name = PY_LIBRARY_LABEL
            /\ fs[Root].build # <<>>
            /\ fs[Root].build[1].name = <<"p", "k", "g">>

C2_IncrementalStep ==
    \A p \in Procs :
        (call'[p].incremental /\ pc'[p] # pc[p]) =>
            /\ DOMAIN fs' = DOMAIN fs
            /\ Archives(fs') = Archives(fs)

\* C2: an incremental extraction that completed returned "//.", and the
\* py_library it declared is named PY_LIBRARY_LABEL whatever the distribution
\* is called; no step of an incremental extraction creates a directory or
\* removes an archive from the working directory.
C2_IncrementalResult == []C2_IncrementalState /\ [][C2_IncrementalStep]_vars

C2_Witness ==
    \E p \in Procs :
        /\ pc[p] = "done" /\ Incremental(p)
        /\ WheelName(Wheel(p)) = <<"A", "-", "b">>
        /\ Wheel(p) \in Archives(fs)

\* The archive label of the same package as library label l.
ArchiveLabelOf(l) == [ParseLabel(l) EXCEPT !.target = WHEEL_FILE_LABEL]

\* C3 as stated: the labels in deps are in ascending order, each once, and
\* data holds, once each, the ":whl" label of each of them.
C3_LabelsSortedUnique ==
    \A p \in Procs :
        Written(p) =>
            /\ StrictlyAscending(DepLabels(p))
            /\ Len(DataLabels(p)) = Len(DepLabels(p))
            /\ \A i \in 1..Len(DepLabels(p)) :
                  Cardinality({ j \in 1..Len(DataLabels(p)) :
                                   ParseLabel(DataLabels(p)[j])
                                       = ArchiveLabelOf(DepLabels(p)[i]) }) = 1

\* The identifier a label addresses a package by: its repository when it has
\* one, else its package path.
LabelIdent(l) == IF ParseLabel(l).repo # <<>> THEN ParseLabel(l).repo ELSE ParseLabel(l).pkg

\* C3 amended: deps holds one label per reported dependency name, in the
\* ascending order of the names as reported (not of the labels), and data holds
\* at the same position the ":whl" label of the same package.
C3_LabelsFollowSortedNames ==
    \A p \in Procs :
        Written(p) =>
            LET names == loc[p].whl_deps
                D     == Dependencies(Wheel(p), loc[p].extras_requested)
            IN /\ { names[i] : i \in 1..Len(names) } = D
               /\ Len(names) = Cardinality(D)
               /\ StrictlyAscending(names)
               /\ Len(DepLabels(p)) = Len(names)
               /\ Len(DataLabels(p)) = Len(names)
               /\ \A i \in 1..Len(names) :
                     /\ ParseLabel(DepLabels(p)[i]).quoted
                     /\ LabelIdent(DepLabels(p)[i]) = repo_prefix \o Canonical(names[i])
                     /\ ParseLabel(DataLabels(p)[i]) = ArchiveLabelOf(DepLabels(p)[i])

\* Names that sanitise alike are both reported: a label is repeated and the
\* labels are not in ascending order.
C3_Witness ==
    \E p \in Procs :
        /\ Written(p)
        /\ \E i, j \in 1..Len(DepLabels(p)) : i < j /\ DepLabels(p)[i] = DepLabels(p)[j]
        /\ ~StrictlyAscending(DepLabels(p))

\* C4: two spellings of one name (case, '-', '.', '_') sanitise to the same
\* identifier, which is the prefix, unchanged, followed by the lower-cased name
\* with '-' and '.' replaced by '_'.
C4_SanitiseCanonical ==
    sanOutA # <<>> =>
        /\ SameDistribution(sanA, sanB) => sanOutA = sanOutB
        /\ sanOutA = sanPrefix \o Canonical(sanA)
        /\ SubSeq(sanOutB, 1, Len(sanPrefix)) = sanPrefix
        /\ Len(sanOutB) = Len(sanPrefix) + Len(sanB)

C4_Witness ==
    /\ sanA = <<"A", "-", "b">>
    /\ sanB = <<"a", ".", "b">>
    /\ sanPrefix = <<"P", "-">>
    /\ sanOutA = <<"P", "-", "a", "_", "b">>
    /\ sanOutB = sanOutA

\* C5: when v and w were extracted in the same mode and v's wheel names w's
\* distribution as a dependency, in whatever spelling, the library and archive
\* labels v's BUILD.bazel holds for it address the targets w's BUILD.bazel
\* declares: in w's directory (standalone), or at the root of the repository
\* named after w (incremental).
C5_LabelsResolve ==
    \A v, w \in Procs :
        (v # w /\ Written(v) /\ Written(w) /\ call[v].incremental = call[w].incremental) =>
            \A i \in 1..Len(loc[v].whl_deps) :
                SameDistribution(loc[v].whl_deps[i], WheelName(Wheel(w))) =>
                    LET L == ParseLabel(DepLabels(v)[i])
                        F == ParseLabel(DataLabels(v)[i])
                        s == repo_prefix \o Canonical(WheelName(Wheel(w)))
                    IN /\ L.quoted /\ F.quoted
                       /\ L.target = Contents(w).name
                       /\ F.target = Contents(w).whl_file_label
                       /\ IF call[w].incremental
                          THEN /\ L.repo = s /\ F.repo = s
                               /\ L.pkg = <<>> /\ F.pkg = <<>>
                               /\ loc[w].directory = Root
                          ELSE /\ L.repo = <<>> /\ F.repo = <<>>
                               /\ L.pkg = loc[w].directory /\ F.pkg = loc[w].directory
                               /\ s = loc[w].directory
                               /\ fs[loc[w].directory].build = <<Contents(w)>>

C5_Witness ==
    \E v, w \in Procs :
        /\ v # w /\ Written(v) /\ Written(w)
        /\ Standalone(v) /\ Standalone(w)
        /\ \E i \in 1..Len(loc[v].whl_deps) :
              /\ loc[v].whl_deps[i] # WheelName(Wheel(w))
              /\ SameDistribution(loc[v].whl_deps[i], WheelName(Wheel(w)))

PastNamespace(p) == pc[p] \in {"deps", "write", "remove", "return", "done"}

Markers(tree) == { f \in tree : f[Len(f)] = "__init__.py" }

\* The marker files normalising p's wheel adds.
OwnMarkers(p) ==
    { Append(d, "__init__.py") :
         d \in implicit_namespace_packages(
                   spread_purelib_into_root(Metadata(Wheel(p)).files), {<<"bin">>}) }

\* C6 as stated: the normaliser runs exactly when the flag argument is true.
C6_RunsWhenFlagTrue ==
    \A p \in Procs :
        PastNamespace(p) =>
            (("namespace" \in { log[p][i] : i \in 1..Len(log[p]) })
                <=> enable_implicit_namespace_pkgs)

\* C6 amended: the normaliser runs exactly when enable_implicit_namespace_pkgs
\* is false; when it is true no marker file is added to the unzipped tree.
C6_RunsWhenFlagFalse ==
    \A p \in Procs :
        PastNamespace(p) =>
            IF enable_implicit_namespace_pkgs
            THEN /\ Pos(log[p], "namespace") = 0
                 /\ Markers(fs[loc[p].directory].tree) = {}
            ELSE /\ Pos(log[p], "namespace") > 0
                 /\ OwnMarkers(p) \subseteq fs[loc[p].directory].tree

C6_Witness ==
    \E p \in Procs :
        /\ PastNamespace(p)
        /\ ~enable_implicit_namespace_pkgs
        /\ <<"ns", "__init__.py">> \in fs[loc[p].directory].tree
        /\ <<"bin", "__init__.py">> \notin fs[loc[p].directory].tree

\* C7 as stated: after a standalone extraction the target directory holds no
\* .whl file.
C7_CopyDeleted ==
    \A p \in Procs :
        (pc[p] = "done" /\ Standalone(p)) => fs[loc[p].directory].whl = {}

C7_StandaloneState ==
    \A p \in Procs :
        (pc[p] = "done" /\ Standalone(p)) =>
            /\ Wheel(p) \in fs[loc[p].directory].whl
            /\ Wheel(p) \notin Archives(fs)
            /\ loc[p].directory # Root

C7_IncrementalStep ==
    \A p \in Procs :
        (call'[p].incremental /\ pc'[p] # pc[p]) =>
            \A d \in DOMAIN fs : d \in DOMAIN fs' /\ fs'[d].whl = fs[d].whl

\* C7 amended: after a standalone extraction the file deleted is the original
\* archive in the working directory, and the copy inside the target directory
\* remains; no step of an incremental extraction deletes or adds a .whl file.
C7_OriginalDeleted == []C7_StandaloneState /\ [][C7_IncrementalStep]_vars

C7_Witness ==
    \E p \in Procs :
        /\ pc[p] = "done" /\ Standalone(p)
        /\ fs[loc[p].directory].whl = {Wheel(p)}
        /\ fs[loc[p].directory].build # <<>>

HasDeps(p) == Pos(log[p], "deps") > 0

C8_State ==
    \A p \in Procs :
        (HasDeps(p) /\ WheelName(Wheel(p)) \notin DOMAIN extras) =>
            LET D == Dependencies(Wheel(p), {}) IN
            /\ loc[p].extras_requested = {}
            /\ { loc[p].whl_deps[i] : i \in 1..Len(loc[p].whl_deps) } = D
            /\ Len(loc[p].sanitised_dependencies) = Cardinality(D)
            /\ Len(loc[p].sanitised_wheel_file_dependencies) = Cardinality(D)
            /\ Written(p) =>
                  /\ Len(DepLabels(p)) = Cardinality(D)
                  /\ Len(DataLabels(p)) = Cardinality(D)

C8_Step ==
    \A p \in Procs :
        (pc[p] = "deps" /\ pc'[p] = "failed") => ~Readable(p)

\* C8: when the wheel's name is not a key of extras (compared as spelled), the
\* dependency set and the generated lists are those of no extras requested, and
\* the lookup does not make the extraction fail.
C8_UnknownNameNoExtras == []C8_State /\ [][C8_Step]_vars

C8_Witness ==
    \E p \in Procs :
        /\ Written(p)
        /\ WheelName(Wheel(p)) = <<"A", "-", "b">>
        /\ DOMAIN extras = {<<"a", "-", "b">>}
        /\ Len(DepLabels(p)) = 2

\* C9: in every call the statements complete in the order mkdir, copy, unzip,
\* purelib, namespace, write, remove; a call that failed has not removed the
\* archive, and an archive is gone only after the BUILD.bazel of a standalone
\* call on it was written.
C9_StepOrder ==
    /\ \A p \in Procs :
          /\ Standalone(p) => ( /\ Before(log[p], "mkdir", "copy")
                                /\ Before(log[p], "copy", "unzip") )
          /\ Before(log[p], "unzip", "purelib")
          /\ Pos(log[p], "namespace") > 0 =>
                Pos(log[p], "purelib") \in 1..(Pos(log[p], "namespace") - 1)
          /\ Before(log[p], "purelib", "write")
          /\ (Pos(log[p], "write") > 0 /\ RunsNamespaceCompat(enable_implicit_namespace_pkgs))
                => Pos(log[p], "namespace") \in 1..(Pos(log[p], "write") - 1)
          /\ Before(log[p], "write", "remove")
          /\ Pos(log[p], "remove") > 0 => Standalone(p)
          /\ pc[p] = "failed" => Pos(log[p], "remove") = 0
    /\ \A w \in WheelFiles :
          w \notin Archives(fs) =>
              \E p \in Procs :
                  /\ Standalone(p) /\ Wheel(p) = w
                  /\ Pos(log[p], "remove") > 0
                  /\ fs[loc[p].directory].build # <<>>
                  /\ w \in fs[loc[p].directory].whl

C9_Witness ==
    \E p, q \in Procs :
        /\ pc[p] = "failed" /\ Standalone(p)
        /\ Pos(log[p], "purelib") > 0
        /\ Wheel(p) \in Archives(fs)
        /\ pc[q] = "done" /\ Standalone(q)
        /\ log[q] = <<"open", "mkdir", "copy", "unzip", "purelib", "namespace",
                      "deps", "write", "remove", "return">>

PastMkdir(p) == Standalone(p) /\ Pos(log[p], "mkdir") > 0

C10_State ==
    /\ \A p, q \in Procs :
          (p # q /\ PastMkdir(p) /\ PastMkdir(q)) => loc[p].directory # loc[q].directory
    /\ \A p \in Procs :
          (Standalone(p) /\ pc[p] = "failed" /\ ~PastMkdir(p)) => log[p] = <<"open">>

C10_Step ==
    \A p \in Procs :
        /\ ( /\ pc[p] = "mkdir" /\ pc'[p] # pc[p]
             /\ sanitise_name(WheelName(Wheel(p)), repo_prefix) \in DOMAIN fs )
              => (pc'[p] = "failed" /\ fs' = fs /\ log' = log)
        /\ pc[p] = "failed" => pc'[p] = "failed"
        /\ (pc[p] = "failed" /\ pc'[p] = "failed") =>
              (loc'[p] = loc[p] /\ log'[p] = log[p])

\* C10: a standalone call that finds its target directory present fails at
\* os.mkdir, having changed nothing, and stays failed; of the calls that target
\* one directory at most one gets past os.mkdir.
C10_DirectoryOwnership == []C10_State /\ [][C10_Step]_vars

C10_Witness ==
    \E p, q \in Procs :
        /\ p # q
        /\ Wheel(p) # Wheel(q)
        /\ PastMkdir(p)
        /\ Standalone(q) /\ pc[q] = "failed" /\ log[q] = <<"open">>
        /\ loc[q].directory = loc[p].directory
        /\ fs[loc[p].directory].build # <<>>

====
